---- MODULE Spec2Model ----
(***************************************************************************)
(* Batch PDF compression harness (src/main.py): directory scan, task       *)
(* planning, fan-out to a process pool, aggregation into the class-level   *)
(* Stats accumulator and the final summary.                                *)
(*                                                                         *)
(* A name (of a file or a directory) is a sequence of one-character        *)
(* strings, a path is a sequence of names.  The external tool and the      *)
(* operating system are the environment: every call that can fail chooses  *)
(* its outcome nondeterministically.                                       *)
(***************************************************************************)
EXTENDS Integers, Sequences, FiniteSets, TLC

\* ------------------------------------------------------------------ bounds
\* Largest number of regular files in the input tree.
MaxFiles == 3
\* Number of worker processes of the pool (os.cpu_count() of the machine).
PoolSize == 2
\* Largest number of process_all calls made one after the other.
MaxRuns == 2

\* ------------------------------------------------------------------- names
D_in  == <<"i", "n">>
D_out == <<"o", "u", "t">>
D_a   == <<"a">>
D_b   == <<"b">>
N_1pdf == <<"1", ".", "p", "d", "f">>
N_2pdf == <<"2", ".", "p", "d", "f">>
N_3PDF == <<"3", ".", "P", "D", "F">>
N_4pdf == <<"4", ".", "p", "d", "f">>
N_ntxt == <<"n", ".", "t", "x", "t">>

\* The directories that exist when the program starts, and the path typed at a
\* prompt that is no directory.
RootDirs == {<<D_in>>, <<D_out>>}
MissingDir == <<<<"x">>>>

\* The entries os.walk lists as files (whatever is no directory) that the input
\* tree <<D_in>> may hold, as paths relative to it, in the order os.walk lists
\* them (top-down: the root's files, then a/, then b/).
WalkOrder == <<
    <<N_3PDF>>, <<N_4pdf>>, <<N_ntxt>>,
    <<D_a, N_1pdf>>, <<D_b, N_1pdf>>, <<D_b, N_2pdf>> >>

\* Among them, the entries that are no regular files: a symbolic link whose
\* target is gone.  os.walk lists it with the files; os.path.getsize raises.
Dangling == {<<N_4pdf>>}

RelCandidates == {WalkOrder[k] : k \in 1..Len(WalkOrder)}

\* The sizes in bytes an input file may have.
SizesOf(rel) ==
    CASE rel = <<N_3PDF>> -> {0, 1000}
      [] rel = <<D_a, N_1pdf>> -> {1000}
      [] rel = <<D_b, N_1pdf>> -> {3000}
      [] rel = <<D_b, N_2pdf>> -> {2000}
      [] OTHER -> {0}

\* ------------------------------------------------------------ path helpers
IsPrefix(p, q) == Len(p) <= Len(q) /\ SubSeq(q, 1, Len(p)) = p

Parent(p) == SubSeq(p, 1, Len(p) - 1)

Basename(p) == p[Len(p)]

\* str(path): the names joined by the separator.
RECURSIVE JoinNames(_)
JoinNames(p) ==
    IF Len(p) = 0 THEN <<>>
    ELSE IF Len(p) = 1 THEN p[1]
    ELSE p[1] \o <<"/">> \o JoinNames(Tail(p))

Str(p) == JoinNames(p)

\* str.lower() on the alphabet of the names above.
LowerChar(c) ==
    CASE c = "P" -> "p"
      [] c = "D" -> "d"
      [] c = "F" -> "f"
      [] OTHER -> c

Lower(name) == [k \in 1..Len(name) |-> LowerChar(name[k])]

EndsWith(s, suffix) ==
    /\ Len(s) >= Len(suffix)
    /\ SubSeq(s, Len(s) - Len(suffix) + 1, Len(s)) = suffix

PdfSuffix == <<".", "p", "d", "f">>

\* ---------------------------------------------------------- pure functions
\* os.path.isdir, the test of prompt_directory.
prompt_directory(path, dirs) == path \in dirs

\* prompt_quality: the menu's mapping, '/ebook' for anything else.
prompt_quality(choice) ==
    CASE choice = "1" -> "/screen"
      [] choice = "2" -> "/ebook"
      [] choice = "3" -> "/printer"
      [] choice = "4" -> "/prepress"
      [] choice = "5" -> "/default"
      [] OTHER -> "/ebook"

\* What is typed at the quality prompt: a menu number, a blank line, junk.
QualityInputs == {"2", "", "9"}

\* file.lower().endswith(".pdf")
IsPdfName(name) == EndsWith(Lower(name), PdfSuffix)

\* find_all_pdfs: os.walk below root_dir, every listed file whose lowered name
\* ends with ".pdf", as root joined with the relative path.
find_all_pdfs(files, root_dir) ==
    LET listed(rel) == (root_dir \o rel) \in DOMAIN files
        hits == SelectSeq(WalkOrder, LAMBDA rel : listed(rel) /\ IsPdfName(Basename(rel)))
    IN  [k \in 1..Len(hits) |-> root_dir \o hits[k]]

\* Path.relative_to: the path with the base's names removed.
relative_to(path, base) == SubSeq(path, Len(base) + 1, Len(path))

\* (variant) the output lands directly in the output root, the subdirectory lost.
PlanOutputFlat(input_file, in_dir, out_dir) == out_dir \o <<Basename(input_file)>>

\* output_dir / relative_path
PlanOutput(input_file, in_dir, out_dir) == out_dir \o relative_to(input_file, in_dir)

\* The loop that builds tasks: one (input_file, output_file) per listed file.
BuildTasks(files, in_dir, out_dir) ==
    [k \in 1..Len(files) |->
        [inp |-> files[k], out |-> PlanOutput(files[k], in_dir, out_dir)]]

\* Path.mkdir(parents=True, exist_ok=True): the directory and its ancestors.
MkdirParents(dirs, dir) ==
    dirs \cup {SubSeq(dir, 1, k) : k \in 1..Len(dir)}

\* What the environment can do inside the try block of compress_pdf:
\*   stat_in_err   os.path.getsize(input_path) raises
\*   tool_err      the tool exits non-zero (or cannot be started), no output
\*   tool_partial  the tool exits non-zero and leaves an output file behind
\*   no_output     the tool exits 0, os.path.getsize(output_path) raises
\*   halved        the tool exits 0 and writes half the input's size
\*   doubled       the tool exits 0 and writes twice the input's size
TryOutcomes == {"stat_in_err", "tool_err", "tool_partial", "no_output", "halved", "doubled"}

ToolExitsZero(o) == o \in {"no_output", "halved", "doubled"}

ToolWrites(o) == o \in {"tool_partial", "halved", "doubled"}

WrittenSize(o, orig) ==
    CASE o = "halved" -> orig \div 2
      [] o = "doubled" -> orig + orig
      [] OTHER -> 0

\* The file system after the tool ran on (inp, out) with outcome o.
ToolEffect(files, inp, out, o) ==
    IF o # "stat_in_err" /\ ToolWrites(o)
    THEN [p \in DOMAIN files \cup {out} |->
            IF p = out THEN WrittenSize(o, files[inp]) ELSE files[p]]
    ELSE files

\* (variant) the failed tuple keeps the file's name only.
FailedResultBasename(inp) ==
    [success |-> FALSE, orig |-> 0, comp |-> 0, path |-> Basename(inp)]

\* return (False, 0, 0, str(input_path))
FailedResult(inp) == [success |-> FALSE, orig |-> 0, comp |-> 0, path |-> Str(inp)]

\* (variant) the input's size is read after the tool ran, not before.
compress_pdfStatAfter(files, inp, out, o) ==
    LET after == ToolEffect(files, inp, out, o)
    IN  IF o = "stat_in_err" \/ inp \notin DOMAIN files THEN FailedResult(inp)
        ELSE IF ~ToolExitsZero(o) THEN FailedResult(inp)
        ELSE IF o = "no_output" \/ out \notin DOMAIN after THEN FailedResult(inp)
        ELSE [success |-> TRUE, orig |-> after[inp], comp |-> after[out],
              path |-> Str(inp)]

\* compress_pdf, its try block: the size of the input, the tool, the size of the
\* output; any exception gives the failed tuple.
compress_pdf(files, inp, out, o) ==
    LET after == ToolEffect(files, inp, out, o)
    IN  IF o = "stat_in_err" \/ inp \notin DOMAIN files THEN FailedResult(inp)
        ELSE IF ~ToolExitsZero(o) THEN FailedResult(inp)
        ELSE IF o = "no_output" \/ out \notin DOMAIN after THEN FailedResult(inp)
        ELSE [success |-> TRUE, orig |-> files[inp], comp |-> after[out],
              path |-> Str(inp)]

\* (variant) every Result is appended to the list, the successes too.
AggregateListsAll(stats, r) ==
    IF r.success
    THEN [stats EXCEPT !.success = @ + 1,
                       !.original_size = @ + r.orig,
                       !.compressed_size = @ + r.comp,
                       !.errors = Append(@, r.path)]
    ELSE [stats EXCEPT !.failed = @ + 1,
                       !.errors = Append(@, r.path)]

\* (variant) a failure is listed but not counted.
AggregateNoFailCount(stats, r) ==
    IF r.success
    THEN [stats EXCEPT !.success = @ + 1,
                       !.original_size = @ + r.orig,
                       !.compressed_size = @ + r.comp]
    ELSE [stats EXCEPT !.errors = Append(@, r.path)]

\* The body of the as_completed loop for one Result.
Aggregate(stats, r) ==
    IF r.success
    THEN [stats EXCEPT !.success = @ + 1,
                       !.original_size = @ + r.orig,
                       !.compressed_size = @ + r.comp]
    ELSE [stats EXCEPT !.failed = @ + 1,
                       !.errors = Append(@, r.path)]

\* n / d rounded to the nearest integer (d > 0), as a format of fixed precision.
RoundDiv(n, d) ==
    IF n >= 0 THEN (2 * n + d) \div (2 * d)
    ELSE 0 - ((2 * (0 - n) + d) \div (2 * d))

\* A float division: ZeroDivisionError on a zero divisor; the quotient times 100 is
\* kept in tenths (n / d * 100 to one decimal).
Divide(n, d) ==
    IF d = 0 THEN [raised |-> TRUE, tenths |-> 0]
    ELSE [raised |-> FALSE, tenths |-> RoundDiv(n * 1000, d)]

\* (variant) the division without its guard.
RatioUnguarded(stats) ==
    Divide(stats.original_size - stats.compressed_size, stats.original_size)

\* ratio = (saved / Stats.original_size) * 100 if Stats.original_size else 0
\* in tenths of a percent, as "{ratio:.1f}" prints it.
Ratio(stats) ==
    LET saved == stats.original_size - stats.compressed_size
    IN  IF stats.original_size # 0
        THEN Divide(saved, stats.original_size)
        ELSE [raised |-> FALSE, tenths |-> 0]

\* "{x / (1024*1024):.2f} MB": hundredths of a megabyte.
MB(x) == RoundDiv(x * 100, 1024 * 1024)

\* The report of process_all: what each print statement shows.
Report(stats) ==
    LET shown == stats.total > 0
        listed == stats.failed > 0
        ratio == IF shown THEN Ratio(stats) ELSE [raised |-> FALSE, tenths |-> 0]
    IN  [printed |-> TRUE,
         total |-> stats.total, success |-> stats.success, failed |-> stats.failed,
         sizes_shown |-> shown,
         original_mb |-> IF shown THEN MB(stats.original_size) ELSE 0,
         compressed_mb |-> IF shown THEN MB(stats.compressed_size) ELSE 0,
         saved_mb |-> IF shown THEN MB(stats.original_size - stats.compressed_size) ELSE 0,
         raised |-> ratio.raised,
         ratio |-> ratio.tenths,
         errors_shown |-> listed,
         errors |-> IF listed THEN stats.errors ELSE <<>>]

\* ------------------------------------------------------------------- state
VARIABLES
    pc,           \* position of the main program
    probe,        \* how the version probe of check_ghostscript ended
    tree,         \* the input tree the run started with: relative path -> size
    fsDirs,       \* file system: the directories that exist
    fsFiles,      \* file system: regular file path -> size
    input_dir,    \* input_root as answered at the prompt
    output_dir,   \* output_root as answered at the prompt
    quality,      \* the -dPDFSETTINGS value chosen at the prompt
    pdf_files,    \* the list find_all_pdfs returned
    tasks,        \* the (input_file, output_file) list of process_all
    submitted,    \* number of tasks handed to executor.submit so far
    fut,          \* per task: the future's state and what it holds
    fate,         \* per task: what the environment did to it
    consumed,     \* the futures as_completed has yielded to the loop
    Stats,        \* the class-level accumulator
    summary,      \* what the final report printed
    runs,         \* number of process_all calls so far
    prev,         \* the fates and the report of the previous process_all call
    submitCount,  \* per task: times it was submitted
    aggCount      \* per task: times a Result of it was applied to Stats

vars == <<pc, probe, tree, fsDirs, fsFiles, input_dir, output_dir, quality, pdf_files,
          tasks, submitted, fut, fate, consumed, Stats, summary, runs, prev,
          submitCount, aggCount>>

NoPath == <<>>

\* class Stats: the attribute values the class body assigns.
StatsInit ==
    [total |-> 0, success |-> 0, failed |-> 0, errors |-> <<>>,
     original_size |-> 0, compressed_size |-> 0]

NoSummary ==
    [printed |-> FALSE, total |-> 0, success |-> 0, failed |-> 0,
     sizes_shown |-> FALSE, original_mb |-> 0, compressed_mb |-> 0,
     saved_mb |-> 0, raised |-> FALSE, ratio |-> 0,
     errors_shown |-> FALSE, errors |-> <<>>]

NoResult == [success |-> FALSE, orig |-> 0, comp |-> 0, path |-> <<>>]

NoPrev == [fate |-> <<>>, summary |-> NoSummary, stats |-> StatsInit]

Trees ==
    UNION {{t \in [fs -> {0, 1000, 2000, 3000}] : \A rel \in fs : t[rel] \in SizesOf(rel)} :
             fs \in {s \in SUBSET RelCandidates : Cardinality(s) <= MaxFiles}}

InitialFiles(t) ==
    [p \in {<<D_in>> \o rel : rel \in DOMAIN t} |-> t[SubSeq(p, 2, Len(p))]]

InitialDirs(t) ==
    RootDirs \cup {<<D_in>> \o Parent(rel) : rel \in DOMAIN t}

Init ==
    /\ pc = "probe"
    /\ probe = "none"
    /\ tree \in Trees
    /\ fsDirs = InitialDirs(tree)
    /\ fsFiles = InitialFiles(tree)
    /\ input_dir = NoPath
    /\ output_dir = NoPath
    /\ quality = ""
    /\ pdf_files = <<>>
    /\ tasks = <<>>
    /\ submitted = 0
    /\ fut = <<>>
    /\ fate = <<>>
    /\ consumed = {}
    /\ Stats = StatsInit
    /\ summary = NoSummary
    /\ runs = 0
    /\ prev = NoPrev
    /\ submitCount = <<>>
    /\ aggCount = <<>>

fsVars == <<fsDirs, fsFiles>>
promptVars == <<input_dir, output_dir, quality>>
batchVars == <<pdf_files, tasks, submitted, fut, fate, consumed, submitCount, aggCount>>
reportVars == <<Stats, summary>>
runVars == <<runs, prev>>

Tasks == 1..Len(tasks)

\* -------------------------------------------------------------- main flow
\* check_ghostscript: the version probe.  The tool is missing, or exits
\* non-zero: print and exit(1).  Any other exception (the file cannot be
\* executed, say) is not caught and ends the program with a traceback.
ProbeOutcomes == {"ok", "FileNotFoundError", "CalledProcessError", "PermissionError"}

\* (variant) a non-zero exit of the probe is reported but does not exit.
AfterProbeNoExit(r) ==
    CASE r \in {"ok", "CalledProcessError"} -> "prompt_input"
      [] r = "FileNotFoundError" -> "exit1"
      [] OTHER -> "traceback"

AfterProbe(r) ==
    CASE r = "ok" -> "prompt_input"
      [] r \in {"FileNotFoundError", "CalledProcessError"} -> "exit1"
      [] OTHER -> "traceback"

check_ghostscript ==
    /\ pc = "probe"
    /\ \E r \in ProbeOutcomes :
         /\ probe' = r
         /\ pc' = AfterProbe(r)
    /\ UNCHANGED <<tree, fsVars, promptVars, batchVars, reportVars, runVars>>

\* What is typed at a directory prompt.
TypedPaths == RootDirs \cup {MissingDir}

\* input_root = prompt_directory(...): asks again until the path is a directory.
PromptInput ==
    /\ pc = "prompt_input"
    /\ \E path \in TypedPaths :
         IF prompt_directory(path, fsDirs)
         THEN input_dir' = path /\ pc' = "prompt_output"
         ELSE UNCHANGED <<input_dir, pc>>
    /\ UNCHANGED <<probe, tree, fsVars, output_dir, quality, batchVars, reportVars, runVars>>

\* output_root = prompt_directory(...)
PromptOutput ==
    /\ pc = "prompt_output"
    /\ \E path \in TypedPaths :
         IF prompt_directory(path, fsDirs)
         THEN output_dir' = path /\ pc' = "prompt_quality"
         ELSE UNCHANGED <<output_dir, pc>>
    /\ UNCHANGED <<probe, tree, fsVars, input_dir, quality, batchVars, reportVars, runVars>>

\* quality = prompt_quality()
PromptQuality ==
    /\ pc = "prompt_quality"
    /\ \E choice \in QualityInputs : quality' = prompt_quality(choice)
    /\ pc' = "process_all"
    /\ UNCHANGED <<probe, tree, fsVars, input_dir, output_dir, batchVars, reportVars, runVars>>

\* ------------------------------------------------------------ process_all
\* Stats.total = len(pdf_files): the one attribute process_all assigns afresh.
SetTotal(stats, n) == [stats EXCEPT !.total = n]

\* process_all up to the executor: the scan, Stats.total, the task list.
Plan ==
    /\ pc = "process_all"
    /\ pdf_files' = find_all_pdfs(fsFiles, input_dir)
    /\ Stats' = SetTotal(Stats, Len(pdf_files'))
    /\ tasks' = BuildTasks(pdf_files', input_dir, output_dir)
    /\ submitted' = 0
    /\ fut' = [k \in 1..Len(pdf_files') |-> [st |-> "new", holds |-> "none", res |-> NoResult]]
    /\ fate' = [k \in 1..Len(pdf_files') |-> "none"]
    /\ consumed' = {}
    /\ submitCount' = [k \in 1..Len(pdf_files') |-> 0]
    /\ aggCount' = [k \in 1..Len(pdf_files') |-> 0]
    /\ runs' = runs + 1
    /\ pc' = "executor"
    /\ UNCHANGED <<probe, tree, fsVars, promptVars, summary, prev>>

\* (variant) the calls are submitted from the end of the task list.
SubmitLastFirst ==
    /\ pc = "executor"
    /\ submitted < Len(tasks)
    /\ LET k == Len(tasks) - submitted
       IN  /\ fut' = [fut EXCEPT ![k].st = "queued"]
           /\ submitCount' = [submitCount EXCEPT ![k] = @ + 1]
           /\ submitted' = submitted + 1
    /\ UNCHANGED <<pc, probe, tree, fsVars, promptVars, pdf_files, tasks, fate, consumed,
                   reportVars, runVars, aggCount>>

\* executor.submit(compress_pdf, inp, out, quality), in the order of tasks.
Submit ==
    /\ pc = "executor"
    /\ submitted < Len(tasks)
    /\ LET k == submitted + 1
       IN  /\ fut' = [fut EXCEPT ![k].st = "queued"]
           /\ submitCount' = [submitCount EXCEPT ![k] = @ + 1]
           /\ submitted' = k
    /\ UNCHANGED <<pc, probe, tree, fsVars, promptVars, pdf_files, tasks, fate, consumed,
                   reportVars, runVars, aggCount>>

ExecutorAlive == pc \in {"executor", "unwind"}

Busy == {k \in Tasks : fut[k].st \in {"picked", "invoking"}}

\* (variant) a queued call is started whether or not a worker is free.
MayTakeUnbounded(k) ==
    /\ fut[k].st = "queued"
    /\ \A j \in Tasks : fut[j].st = "queued" => k <= j

\* A free worker process takes the oldest queued call.
MayTake(k) ==
    /\ fut[k].st = "queued"
    /\ \A j \in Tasks : fut[j].st = "queued" => k <= j
    /\ Cardinality(Busy) < PoolSize

Take(k) ==
    /\ ExecutorAlive
    /\ MayTake(k)
    /\ fut' = [fut EXCEPT ![k].st = "picked"]
    /\ UNCHANGED <<pc, probe, tree, fsVars, promptVars, pdf_files, tasks, submitted, fate,
                   consumed, reportVars, runVars, submitCount, aggCount>>

\* A deterministic environment repeats in a later call what it did in the
\* previous one; in the first call every outcome is possible.
\* (variant) mkdir without exist_ok: FileExistsError on a directory that exists.
MkdirOutcomesExistNotOk(k) ==
    IF runs > 1 THEN {"ok"}
    ELSE IF Parent(tasks[k].out) \in fsDirs THEN {"OSError"}
    ELSE {"ok", "OSError"}

\* mkdir(parents=True, exist_ok=True) cannot fail on a directory that exists;
\* creating one can (no permission, a read-only volume, a file in the way).
MkdirOutcomes(k) ==
    IF Parent(tasks[k].out) \in fsDirs \/ runs > 1 THEN {"ok"}
    ELSE {"ok", "OSError"}

\* A regular file: no dangling link.
IsRegularFile(path) == \A rel \in Dangling : path # <<D_in>> \o rel

TryOutcomesOf(k) ==
    IF ~IsRegularFile(tasks[k].inp) THEN {"stat_in_err"}
    ELSE IF runs <= 1 THEN TryOutcomes
    ELSE {prev.fate[k]} \cap TryOutcomes

\* compress_pdf, its first statement: output_path.parent.mkdir(...), outside
\* the try block, so its exception becomes the future's exception.
Mkdir(k) ==
    /\ ExecutorAlive
    /\ fut[k].st = "picked"
    /\ \E r \in MkdirOutcomes(k) :
         IF r = "ok"
         THEN /\ fsDirs' = MkdirParents(fsDirs, Parent(tasks[k].out))
              /\ fut' = [fut EXCEPT ![k].st = "invoking"]
              /\ UNCHANGED fate
         ELSE /\ fut' = [fut EXCEPT ![k].st = "finished", ![k].holds = "exception"]
              /\ fate' = [fate EXCEPT ![k] = "mkdir_err"]
              /\ UNCHANGED fsDirs
    /\ UNCHANGED <<pc, probe, tree, fsFiles, promptVars, pdf_files, tasks, submitted,
                   consumed, reportVars, runVars, submitCount, aggCount>>

\* (variant) the worker itself counts its outcome in Stats.
InvokeWritesStats(k) ==
    /\ ExecutorAlive
    /\ fut[k].st = "invoking"
    /\ \E o \in TryOutcomesOf(k) :
         /\ fsFiles' = ToolEffect(fsFiles, tasks[k].inp, tasks[k].out, o)
         /\ fut' = [fut EXCEPT ![k].st = "finished", ![k].holds = "result",
                               ![k].res = compress_pdf(fsFiles, tasks[k].inp, tasks[k].out, o)]
         /\ fate' = [fate EXCEPT ![k] = o]
         /\ Stats' = Aggregate(Stats, fut'[k].res)
    /\ UNCHANGED <<pc, probe, tree, fsDirs, promptVars, pdf_files, tasks, submitted,
                   consumed, summary, runVars, submitCount, aggCount>>

\* compress_pdf, its try block; the returned tuple becomes the future's result.
Invoke(k) ==
    /\ ExecutorAlive
    /\ fut[k].st = "invoking"
    /\ \E o \in TryOutcomesOf(k) :
         /\ fsFiles' = ToolEffect(fsFiles, tasks[k].inp, tasks[k].out, o)
         /\ fut' = [fut EXCEPT ![k].st = "finished", ![k].holds = "result",
                               ![k].res = compress_pdf(fsFiles, tasks[k].inp, tasks[k].out, o)]
         /\ fate' = [fate EXCEPT ![k] = o]
    /\ UNCHANGED <<pc, probe, tree, fsDirs, promptVars, pdf_files, tasks, submitted,
                   consumed, reportVars, runVars, submitCount, aggCount>>

\* One turn of "for future in as_completed(futures)": future.result() returns
\* the tuple, or raises what the call raised.
Collect(k) ==
    /\ pc = "executor"
    /\ submitted = Len(tasks)
    /\ fut[k].st = "finished"
    /\ k \notin consumed
    /\ consumed' = consumed \cup {k}
    /\ IF fut[k].holds = "result"
       THEN /\ Stats' = Aggregate(Stats, fut[k].res)
            /\ aggCount' = [aggCount EXCEPT ![k] = @ + 1]
            /\ pc' = pc
       ELSE /\ pc' = "unwind"
            /\ UNCHANGED <<Stats, aggCount>>
    /\ UNCHANGED <<probe, tree, fsVars, promptVars, pdf_files, tasks, submitted, fut, fate,
                   summary, runVars, submitCount>>

\* The exception leaves the with block: shutdown(wait=True) lets every
\* submitted call finish, then the exception ends the program.
Unwind ==
    /\ pc = "unwind"
    /\ \A k \in Tasks : fut[k].st = "finished"
    /\ pc' = "crashed"
    /\ UNCHANGED <<probe, tree, fsVars, promptVars, batchVars, reportVars, runVars>>

\* After the loop: the report, then back in main the duration is printed.
PrintSummary ==
    /\ pc = "executor"
    /\ submitted = Len(tasks)
    /\ consumed = Tasks
    /\ summary' = Report(Stats)
    /\ pc' = IF summary'.raised THEN "crashed" ELSE "done"
    /\ UNCHANGED <<probe, tree, fsVars, promptVars, batchVars, Stats, runVars>>
\* ---------------------------------------------------------- specification
Next ==
    \/ check_ghostscript
    \/ PromptInput
    \/ PromptOutput
    \/ PromptQuality
    \/ Plan
    \/ Submit
    \/ \E k \in Tasks : Take(k)
    \/ \E k \in Tasks : Mkdir(k)
    \/ \E k \in Tasks : Invoke(k)
    \/ \E k \in Tasks : Collect(k)
    \/ Unwind
    \/ PrintSummary

Spec == Init /\ [][Next]_vars

\* -------------------------------------------------- process_all called again
\* The output root held no file when the program started.
OutputRootWasEmpty ==
    \A p \in DOMAIN InitialFiles(tree) : ~IsPrefix(output_dir, p)

\* The batch is run again on identical inputs and an empty output root.
RunAgain ==
    /\ pc = "done"
    /\ runs < MaxRuns
    /\ OutputRootWasEmpty
    /\ fsFiles' = InitialFiles(tree)
    /\ fsDirs' = InitialDirs(tree)
    /\ prev' = [fate |-> fate, summary |-> summary, stats |-> Stats]
    /\ summary' = NoSummary
    /\ pc' = "process_all"

\* process_all(input_dir, output_dir, quality) is called a second time in the
\* same interpreter: the class Stats keeps its attribute values.
CallAgain ==
    /\ RunAgain
    /\ UNCHANGED <<probe, tree, promptVars, batchVars, Stats, runs>>

\* The program is started again: the class body of Stats is executed afresh.
StartAgain ==
    /\ RunAgain
    /\ Stats' = StatsInit
    /\ UNCHANGED <<probe, tree, promptVars, batchVars, runs>>

NextRerun ==
    \/ Next
    \/ CallAgain
    \/ StartAgain

SpecRerun == Init /\ [][NextRerun]_vars

\* ------------------------------------------------------------------ claims
RECURSIVE SumOver(_, _)
SumOver(f, S) ==
    IF S = {} THEN 0
    ELSE LET x == CHOOSE y \in S : TRUE
         IN  f[x] + SumOver(f, S \ {x})

Range(seq) == {seq[k] : k \in 1..Len(seq)}

\* The size the input file of task k had when the batch started.
InputSize(k) == InitialFiles(tree)[tasks[k].inp]

Succeeded == {k \in Tasks : fate[k] \in {"halved", "doubled"}}

ToolFailed == {k \in Tasks : fate[k] \in {"tool_err", "tool_partial"}}

BatchDone == pc = "done"

\* C1: once process_all has consumed the last Result, success + failed equals
\* total, and total is the number of files find_all_pdfs discovered.
C1_TotalsAddUp ==
    BatchDone =>
        /\ Stats.success + Stats.failed = Stats.total
        /\ Stats.total = Len(pdf_files)
        /\ Stats.total = Cardinality(Range(find_all_pdfs(InitialFiles(tree), input_dir)))

C1_Witness ==
    /\ BatchDone
    /\ Stats.total = 2
    /\ Stats.success = 1
    /\ Stats.failed = 1

\* C2: no task failure raises past the executor: every finished future holds a
\* Result (a failed one for a failure), the loop never receives an exception
\* and the batch goes on to its summary.
C2_FailuresBecomeResults ==
    /\ \A k \in Tasks : fut[k].st = "finished" => fut[k].holds = "result"
    /\ pc \notin {"unwind", "crashed"}

\* C3: when the tool fails for the inputs F and succeeds for the rest, the
\* finished batch lists exactly the input paths of F, each once, and counts
\* failed = |F|, success = total - |F|.
C3_FailureListIsF ==
    (BatchDone /\ Succeeded \cup ToolFailed = Tasks) =>
        /\ Range(Stats.errors) = {Str(tasks[k].inp) : k \in ToolFailed}
        /\ Len(Stats.errors) = Cardinality(ToolFailed)
        /\ Stats.failed = Cardinality(ToolFailed)
        /\ Stats.success = Stats.total - Cardinality(ToolFailed)

C3_Witness ==
    /\ BatchDone
    /\ Succeeded \cup ToolFailed = Tasks
    /\ Cardinality(ToolFailed) = 1
    /\ Cardinality(Succeeded) = 1

\* C4: every compress_pdf call returns a tuple: (True, input size before the
\* tool ran, output size after it, input path) exactly when the tool exits 0
\* and the output can be read, (False, 0, 0, input path) in every other case.
C4_ReturnContract ==
    \A k \in Tasks :
        fut[k].st = "finished" =>
            /\ fut[k].holds = "result"
            /\ fut[k].res =
                 IF k \in Succeeded
                 THEN [success |-> TRUE, orig |-> InputSize(k),
                       comp |-> fsFiles[tasks[k].out], path |-> Str(tasks[k].inp)]
                 ELSE [success |-> FALSE, orig |-> 0, comp |-> 0,
                       path |-> Str(tasks[k].inp)]

\* C5: in the finished batch original_size and compressed_size are the sums of
\* the input sizes and of the output sizes of exactly the successful tasks;
\* and a/1.pdf (1000 bytes, halved) with b/2.pdf (2000 bytes, failing) gives
\* total 2, success 1, failed 1, 1000 and 500 bytes, b/2.pdf listed, 50.0 %.
Scenario5 ==
    /\ input_dir = <<D_in>>
    /\ DOMAIN tree = {<<D_a, N_1pdf>>, <<D_b, N_2pdf>>}
    /\ tree[<<D_a, N_1pdf>>] = 1000
    /\ tree[<<D_b, N_2pdf>>] = 2000
    /\ BatchDone
    /\ fate[1] = "halved"
    /\ fate[2] \notin {"halved", "doubled"}

C5_SumsOfSuccesses ==
    /\ BatchDone =>
         /\ Stats.original_size =
              SumOver([k \in Tasks |-> InputSize(k)], Succeeded)
         /\ Stats.compressed_size =
              SumOver([k \in Tasks |-> WrittenSize(fate[k], InputSize(k))], Succeeded)
    /\ Scenario5 =>
         /\ Stats = [total |-> 2, success |-> 1, failed |-> 1,
                     errors |-> <<Str(<<D_in, D_b, N_2pdf>>)>>,
                     original_size |-> 1000, compressed_size |-> 500]
         /\ Stats.original_size - Stats.compressed_size = 500
         /\ summary.ratio = 500

C5_Witness == Scenario5 /\ output_dir = <<D_out>>

\* C6: Stats has one writer.  Its counters and lists change only in a step of
\* the as_completed loop, which applies exactly one Result, that of the future
\* it consumes; a step of a worker (one that changes a future) leaves Stats
\* alone.
Accumulated(stats) ==
    <<stats.success, stats.failed, stats.errors, stats.original_size,
      stats.compressed_size>>

C6_SingleWriter ==
    [][Accumulated(Stats') # Accumulated(Stats) =>
          /\ pc = "executor"
          /\ fut' = fut
          /\ \E k \in Tasks \ consumed :
                /\ consumed' = consumed \cup {k}
                /\ fut[k].holds = "result"
                /\ Stats' = Aggregate(Stats, fut[k].res)
          /\ Stats'.success + Stats'.failed = Stats.success + Stats.failed + 1]_vars

C6_Witness ==
    /\ pc = "executor"
    /\ Stats.success + Stats.failed = 1
    /\ \E k \in Tasks : fut[k].st = "invoking"

\* C7: every task is submitted once, produces one Result and has it applied
\* to Stats once, never more, and when the run has ended never less.
C7_Lifecycle ==
    /\ \A k \in Tasks : submitCount[k] <= 1 /\ aggCount[k] <= 1
    /\ pc \in {"done", "crashed"} =>
         \A k \in Tasks :
            /\ submitCount[k] = 1
            /\ fut[k].holds = "result"
            /\ aggCount[k] = 1

\* C8: every discovered file has exactly one task, whose output path is the
\* output root joined with the file's path relative to the input root, and
\* tasks of distinct inputs have distinct output paths.
C8_OneTaskPerFile ==
    runs >= 1 =>
        /\ Len(tasks) = Len(pdf_files)
        /\ \A f \in Range(pdf_files) :
              Cardinality({k \in Tasks : tasks[k].inp = f}) = 1
        /\ \A k \in Tasks :
              \E rel \in RelCandidates :
                 /\ tasks[k].inp = input_dir \o rel
                 /\ tasks[k].out = output_dir \o rel
        /\ \A j, k \in Tasks :
              tasks[j].inp # tasks[k].inp => tasks[j].out # tasks[k].out

C8_Witness ==
    /\ runs >= 1
    /\ Len(tasks) = 2
    /\ Basename(tasks[1].inp) = Basename(tasks[2].inp)
    /\ input_dir # output_dir

\* C9: a second process_all call on identical inputs, an empty output root and
\* a deterministic tool ends with the same tasks, the same partition and the
\* same Stats and report as the first.
C9_SecondRunReportsTheSame ==
    (runs = 2 /\ pc = "done") =>
        /\ fate = prev.fate
        /\ Stats = prev.stats
        /\ summary = prev.summary

\* C10 as claimed: the summary never divides by zero, an empty input root
\* gives total 0 and no failure list, and with a zero sum of original sizes
\* the savings percentage is reported, as 0.
C10_ZeroSumReportsZero ==
    summary.printed =>
        /\ ~summary.raised
        /\ Stats.total = 0 => ~summary.errors_shown
        /\ Stats.original_size = 0 => (summary.sizes_shown /\ summary.ratio = 0)

\* C10 as amended: the summary never divides by zero; with no file found it
\* shows total 0, no failure list and no size or savings line at all; with
\* at least one file found and a zero sum of original sizes the savings
\* percentage is reported as 0.
C10_NoDivisionByZero ==
    /\ ~summary.raised
    /\ (pc = "executor" /\ submitted = Len(tasks) /\ consumed = Tasks) =>
          ENABLED PrintSummary
    /\ summary.printed =>
          /\ pc = "done"
          /\ Stats.total = 0 =>
                (~summary.errors_shown /\ ~summary.sizes_shown)
          /\ (Stats.total > 0 /\ Stats.original_size = 0) =>
                (summary.sizes_shown /\ summary.ratio = 0)

C10_Witness ==
    /\ summary.printed
    /\ Stats.total > 0
    /\ Stats.success > 0
    /\ Stats.original_size = 0

\* C11: nothing is scanned, planned, submitted or invoked unless the version
\* probe ended successfully before; a failed probe ends the program.
NothingDone ==
    /\ runs = 0
    /\ pdf_files = <<>>
    /\ tasks = <<>>
    /\ submitted = 0
    /\ \A k \in DOMAIN fate : fate[k] = "none"
    /\ fsFiles = InitialFiles(tree)
    /\ fsDirs = InitialDirs(tree)
    /\ ~summary.printed

C11_ProbeComesFirst ==
    /\ probe # "ok" => (NothingDone /\ pc \in {"probe", "exit1", "traceback"})
    /\ probe \notin {"none", "ok"} => (pc \in {"exit1", "traceback"} /\ ~ENABLED Next)
    /\ pc \notin {"probe", "exit1", "traceback"} => probe = "ok"

C11_Witness == probe = "CalledProcessError" /\ pc = "exit1"

\* C12: once submitted, all tasks run to completion: a batch that has started
\* comes to rest only with every task finished and none cancelled, every
\* Result consumed by the loop and the summary printed.
C12_RunsToCompletion ==
    (runs >= 1 /\ ~ENABLED Next) =>
        /\ \A k \in Tasks : fut[k].st = "finished"
        /\ consumed = Tasks
        /\ \A k \in Tasks : fut[k].holds = "result"
        /\ summary.printed

\* The tuple task k returned, told from what the environment did to it.
ReturnedBy(k) ==
    IF k \in Succeeded
    THEN [success |-> TRUE, orig |-> InputSize(k),
          comp |-> WrittenSize(fate[k], InputSize(k)), path |-> Str(tasks[k].inp)]
    ELSE [success |-> FALSE, orig |-> 0, comp |-> 0, path |-> Str(tasks[k].inp)]

\* Stats after the Results of tasks 1..n were applied in the order of the tasks.
RECURSIVE InTaskOrder(_)
InTaskOrder(n) ==
    IF n = 0 THEN [StatsInit EXCEPT !.total = Len(tasks)]
    ELSE Aggregate(InTaskOrder(n - 1), ReturnedBy(n))

SubmittedInOrder == \A k \in Tasks : (fut[k].st # "new") <=> (k <= submitted)

\* C13 as claimed: tasks are submitted in the order of the task list, and the
\* final Stats do not depend on the order in which the Results arrive: they
\* are what the order of the task list gives.
C13_StatsIgnoreCompletionOrder ==
    /\ SubmittedInOrder
    /\ BatchDone => Stats = InTaskOrder(Len(tasks))

\* C13 as amended: tasks are submitted in the order of the task list, and the
\* final counts, size sums and set of listed paths do not depend on the order
\* in which the Results arrive; the order of Stats.errors is that order.
C13_CountsIgnoreCompletionOrder ==
    /\ SubmittedInOrder
    /\ BatchDone =>
         LET inOrder == InTaskOrder(Len(tasks))
         IN  /\ [Stats EXCEPT !.errors = <<>>] = [inOrder EXCEPT !.errors = <<>>]
             /\ Len(Stats.errors) = Len(inOrder.errors)
             /\ Range(Stats.errors) = Range(inOrder.errors)

\* The failed Result of the second task is applied while the first task, which
\* was submitted before it, is still running.
C13_Witness ==
    /\ pc = "executor"
    /\ Len(tasks) >= 2
    /\ Stats.errors = <<Str(tasks[2].inp)>>
    /\ fut[1].st = "invoking"

\* C14: a worker runs one task at a time: never more tasks are with a worker
\* than the pool has workers, and a queued task is taken only when fewer are.
C14_AtMostPoolSizeRunning ==
    /\ Cardinality(Busy) <= PoolSize
    /\ \A k \in Tasks : ENABLED Take(k) => Cardinality(Busy) < PoolSize

C14_Witness ==
    /\ Cardinality(Busy) = PoolSize
    /\ \E k \in Tasks : fut[k].st = "queued"
    /\ \A k \in Tasks : ~ENABLED Take(k)

\* C15: the parent directory of a task's output exists before the tool is
\* invoked for it, and a mkdir never fails on a directory that exists already,
\* whoever created it: tasks that share an output directory do not fail one
\* another, in whatever order their mkdir steps come.
C15_DirectoryBeforeTool ==
    /\ [](\A k \in Tasks :
             (fut[k].st = "invoking" \/ fate[k] \in TryOutcomes) =>
                 Parent(tasks[k].out) \in fsDirs)
    /\ [][\A k \in DOMAIN fate \cap DOMAIN fate' :
             (fate[k] = "none" /\ fate'[k] = "mkdir_err") =>
                 Parent(tasks[k].out) \notin fsDirs]_vars

\* Two tasks with the same, newly created output directory are both past
\* their mkdir and running.
C15_Witness ==
    \E j, k \in Tasks :
        /\ j # k
        /\ Parent(tasks[j].out) = Parent(tasks[k].out)
        /\ Parent(tasks[j].out) \notin InitialDirs(tree)
        /\ fut[j].st = "invoking"
        /\ fut[k].st = "invoking"

\* C16: find_all_pdfs returns exactly the regular files below the root, at any
\* depth, whose name ends with ".pdf" in any letter case: no directory, no
\* other suffix, nothing that is no regular file, and nothing twice.
RegularPdfsBelow(root) ==
    {p \in DOMAIN InitialFiles(tree) :
        /\ IsPrefix(root, p)
        /\ Len(p) > Len(root)
        /\ IsRegularFile(p)
        /\ IsPdfName(Basename(p))}

C16_ExactlyTheRegularPdfs ==
    runs >= 1 =>
        /\ Range(pdf_files) = RegularPdfsBelow(input_dir)
        /\ Cardinality(Range(pdf_files)) = Len(pdf_files)
        /\ Range(pdf_files) \cap fsDirs = {}

\* C17: at every point of the batch, not only at its end, success + failed
\* is the number of Results the coordinator has consumed so far and is at
\* most total, and the failure list is as long as the failed counter.
ResultsConsumed == {k \in consumed : fut[k].holds = "result"}

C17_CountersTrackConsumption ==
    /\ Stats.success + Stats.failed = Cardinality(ResultsConsumed)
    /\ Stats.success + Stats.failed <= Stats.total
    /\ Len(Stats.errors) = Stats.failed

\* Mid-batch: one success and one failure are consumed and a third task is
\* still at work.
C17_Witness ==
    /\ pc = "executor"
    /\ Stats.success = 1
    /\ Stats.failed = 1
    /\ Stats.total = 3
    /\ \E k \in Tasks : fut[k].st = "invoking"

\* C18: whatever two directories the prompts accepted as input root and
\* output root, equal ones included, no task's output path is the input
\* path of a task of the same batch.
C18_OutputsAreNotInputs ==
    \A j, k \in Tasks : tasks[j].out # tasks[k].inp
====
